---- MODULE Spec2Model ----
(***************************************************************************)
(* Model of the pooled metadata/blob storage layer of database-service:    *)
(*   - DatabaseConnectionPool and the V3Database repository operations     *)
(*     (src/database/operations.py), specification SpecPool / FairSpecPool *)
(*   - the lazy global pool of get_connection_pool, specification SpecBoot *)
(*   - the ingestion run migrate_mat_files (src/tools/init_db.py),         *)
(*     specification SpecIngest                                            *)
(*   - the V3Database operations on an ingested catalog and the endpoints  *)
(*     of src/api/files.py that call them, specification SpecRepo          *)
(* Every specification leaves the variables it does not use at their       *)
(* initial values.                                                         *)
(***************************************************************************)
EXTENDS Integers, Sequences, FiniteSets, TLC

(***************************************************************************)
(* Bounds of the model.                                                    *)
(***************************************************************************)
\* pool_size of the modelled pool (configurable; the default is 10)
PoolSize == 1
\* number of concurrent request threads calling into the repository
NumCallers == 2
\* number of threads that construct a V3Database concurrently
NumThreads == 3

\* number of directories of the source tree
NumDirs == 2
\* number of times the ingestion is run (a run after a crash included)
MaxRuns == 2
\* the commit batch of migrate_mat_files ("if processed_count % 10 == 0"),
\* scaled down from 10 so that a batch boundary falls inside a small tree
CommitEvery == 1
\* max_samples of load_channel_data (int(2.5e6)), scaled down likewise
MaxSamples == 3

Handles == 1..PoolSize
Callers == 1..NumCallers
Threads == 1..NumThreads
\* the value of a local that holds no object (Python None)
None == 0

VARIABLES
    \* ---- DatabaseConnectionPool and its callers ----
    pool,        \* self.pool: the Queue of free handles, FIFO
    closed,      \* handles on which conn.close() has been called
    pc,          \* per caller: "idle", "waiting" (inside pool.get), "holding"
    conn,        \* per caller: the local conn of get_connection
    timedOut,    \* per caller: the timeout of the pending pool.get has elapsed
    result,      \* per caller: how the last completed operation ended
    closePc,     \* close_all: "idle", "check", "get", "done"
    \* ---- get_connection_pool ----
    global_pool, \* the module global _connection_pool (None or a pool id)
    bootPc,      \* per thread: position inside V3Database.__init__
    newPool,     \* per thread: the pool object under construction
    self_pool,   \* per thread: self.pool of the V3Database it constructed
    poolConns,   \* per pool object: handles opened by _initialize_pool
    \* ---- migrate_mat_files ----
    tree,             \* the source tree: per directory, what it contains
    files_committed,  \* table files as committed in the database file
    seq_committed,    \* sqlite_sequence of files (AUTOINCREMENT), committed
    files,            \* table files as seen by the connection of the run
    seq,              \* sqlite_sequence as seen by the connection of the run
    disk,             \* BINARY_DATA_DIR: file name -> content
    runPc,            \* position of the run inside migrate_mat_files
    experiment_dirs,  \* the list built by the directory scan
    idx,              \* index of the loop over experiment_dirs
    processed_count,
    error_count,
    file_id,          \* cursor.lastrowid of the current item
    runs,             \* number of runs started
    \* ---- V3Database operations and the endpoints of the file API ----
    req,         \* per caller: the call in progress, or the last one made
    value,       \* per caller: what the repository operation returned
    txn,         \* per handle: the open transaction of the connection
    lastWrite,   \* per file: the label of the last update_file_label that
                 \* returned, while no other label update has begun since
    experiment_status,  \* rows of table experiment_status
    rejections          \* rows of table rejections

poolVars == <<pool, closed, pc, conn, timedOut, result, closePc>>
bootVars == <<global_pool, bootPc, newPool, self_pool, poolConns>>
ingestVars == <<tree, files_committed, seq_committed, files, seq, disk, runPc,
                experiment_dirs, idx, processed_count, error_count, file_id, runs>>
repoVars == <<req, value, txn, lastWrite, experiment_status, rejections>>
vars == <<poolVars, bootVars, ingestVars, repoVars>>

(***************************************************************************)
(* DatabaseConnectionPool                                                  *)
(***************************************************************************)
\* Repository operations written with "with self.get_connection() as conn"
WithOps == {"get_all_files", "get_file_by_id", "update_file_label"}
\* Repository operations written as "conn = self.get_connection()" followed
\* by conn.cursor(): the call returns the un-entered context manager, which
\* has no cursor attribute, so they raise AttributeError before any pool.get
AdHocOps == {"update_transient_indices", "update_experiment_status",
             "get_experiment_status", "get_files_by_status",
             "get_status_summary", "add_rejection", "get_rejected_files",
             "get_label_statistics", "search_files"}
Ops == WithOps \cup AdHocOps

\* __init__ / _initialize_pool: pool_size handles are opened and queued
InitPool ==
    /\ pool = [i \in 1..PoolSize |-> i]
    /\ closed = {}
    /\ pc = [c \in Callers |-> "idle"]
    /\ conn = [c \in Callers |-> None]
    /\ timedOut = [c \in Callers |-> FALSE]
    /\ result = [c \in Callers |-> "none"]
    /\ closePc = "idle"

\* (faulty variant: the head is returned but stays in the queue)
QueueGetPeek(q) == q
\* Queue.get on a non-empty queue: the head leaves the queue
QueueGet(q) == Tail(q)

\* Queue.put: the handle joins the queue at the tail
QueuePut(q, h) == Append(q, h)

\* (faulty variants: the put without the "if conn" test; no put at all)
FinallyPutAlways(q, h) == QueuePut(q, h)
FinallyLeak(q, h) == q
\* the finally clause of get_connection: "if conn: self.pool.put(conn)"
FinallyPut(q, h) == IF h # None THEN QueuePut(q, h) ELSE q

\* A caller enters a with-style operation: get_connection sets conn = None
\* and calls self.pool.get(timeout=self.timeout)
CallWith(c, o) ==
    /\ pc[c] = "idle"
    /\ o \in WithOps
    /\ pc' = [pc EXCEPT ![c] = "waiting"]
    /\ conn' = [conn EXCEPT ![c] = None]
    /\ timedOut' = [timedOut EXCEPT ![c] = FALSE]
    /\ result' = [result EXCEPT ![c] = "none"]
    /\ UNCHANGED <<pool, closed, closePc, bootVars, ingestVars, repoVars>>

\* A caller runs an ad-hoc style operation: AttributeError on conn.cursor(),
\* raised outside any try block of the operation; the pool is not touched
CallAdHoc(c, o) ==
    /\ pc[c] = "idle"
    /\ o \in AdHocOps
    /\ result' = [result EXCEPT ![c] = "AttributeError"]
    /\ UNCHANGED <<pool, closed, pc, conn, timedOut, closePc, bootVars, ingestVars, repoVars>>

\* pool.get returns a handle: conn = head of the queue, then "yield conn"
PoolGet(c) ==
    /\ pc[c] = "waiting"
    /\ pool # <<>>
    /\ conn' = [conn EXCEPT ![c] = Head(pool)]
    /\ pool' = QueueGet(pool)
    /\ pc' = [pc EXCEPT ![c] = "holding"]
    /\ UNCHANGED <<closed, timedOut, result, closePc, bootVars, ingestVars, repoVars>>

\* (faulty variant: pool.get without a timeout)
NeverExpires(c) == FALSE
\* self.timeout seconds have passed since the pool.get began
TimerExpires(c) ==
    /\ pc[c] = "waiting"
    /\ ~timedOut[c]
    /\ timedOut' = [timedOut EXCEPT ![c] = TRUE]
    /\ UNCHANGED <<pool, closed, pc, conn, result, closePc, bootVars, ingestVars, repoVars>>

\* pool.get raises Empty: get_connection raises "Database connection pool
\* exhausted"; the finally clause runs with conn = None
GetTimesOut(c) ==
    /\ pc[c] = "waiting"
    /\ timedOut[c]
    /\ pool = <<>>
    /\ pool' = FinallyPut(pool, conn[c])
    /\ pc' = [pc EXCEPT ![c] = "idle"]
    /\ result' = [result EXCEPT ![c] = "pool_exhausted"]
    /\ UNCHANGED <<closed, conn, timedOut, closePc, bootVars, ingestVars, repoVars>>

\* The body of the with block ends, normally or by raising (sqlite3.Error);
\* either way the finally clause of get_connection puts conn back
BodyEnds(c, outcome) ==
    /\ pc[c] = "holding"
    /\ outcome \in {"ok", "sqlite_error"}
    /\ pool' = FinallyPut(pool, conn[c])
    /\ pc' = [pc EXCEPT ![c] = "idle"]
    /\ result' = [result EXCEPT ![c] = outcome]
    /\ conn' = [conn EXCEPT ![c] = None]
    /\ UNCHANGED <<closed, timedOut, closePc, bootVars, ingestVars, repoVars>>

\* close_all is called (process shutdown), at most once
CloseAllStart ==
    /\ closePc = "idle"
    /\ closePc' = "check"
    /\ UNCHANGED <<pool, closed, pc, conn, timedOut, result, bootVars, ingestVars, repoVars>>

\* "while not self.pool.empty()"
CloseAllCheck ==
    /\ closePc = "check"
    /\ closePc' = IF pool = <<>> THEN "done" ELSE "get"
    /\ UNCHANGED <<pool, closed, pc, conn, timedOut, result, bootVars, ingestVars, repoVars>>

\* "conn = self.pool.get_nowait(); conn.close()", or Empty and break
CloseAllGet ==
    /\ closePc = "get"
    /\ IF pool = <<>>
         THEN /\ closePc' = "done"
              /\ UNCHANGED <<pool, closed>>
         ELSE /\ closed' = closed \cup {Head(pool)}
              /\ pool' = Tail(pool)
              /\ closePc' = "check"
    /\ UNCHANGED <<pc, conn, timedOut, result, bootVars, ingestVars, repoVars>>

NextPool ==
    \/ \E c \in Callers, o \in WithOps : CallWith(c, o)
    \/ \E c \in Callers, o \in AdHocOps : CallAdHoc(c, o)
    \/ \E c \in Callers : PoolGet(c)
    \/ \E c \in Callers : TimerExpires(c)
    \/ \E c \in Callers : GetTimesOut(c)
    \/ \E c \in Callers, outcome \in {"ok", "sqlite_error"} : BodyEnds(c, outcome)
    \/ CloseAllStart
    \/ CloseAllCheck
    \/ CloseAllGet

(***************************************************************************)
(* get_connection_pool                                                     *)
(***************************************************************************)
PoolIds == 1..NumThreads

InitBoot ==
    /\ global_pool = None
    /\ bootPc = [t \in Threads |-> "start"]
    /\ newPool = [t \in Threads |-> None]
    /\ self_pool = [t \in Threads |-> None]
    /\ poolConns = [p \in PoolIds |-> 0]

\* "if _connection_pool is None": the test alone; nothing holds a lock
CheckGlobal(t) ==
    /\ bootPc[t] = "start"
    /\ IF global_pool = None
         THEN /\ bootPc' = [bootPc EXCEPT ![t] = "construct"]
              /\ UNCHANGED self_pool
         ELSE /\ bootPc' = [bootPc EXCEPT ![t] = "done"]
              /\ self_pool' = [self_pool EXCEPT ![t] = global_pool]
    /\ UNCHANGED <<global_pool, newPool, poolConns, poolVars, ingestVars, repoVars>>

\* DatabaseConnectionPool.__init__: a new pool object with an empty queue
Construct(t) ==
    /\ bootPc[t] = "construct"
    /\ \E p \in PoolIds :
         /\ p = 1 + Cardinality({u \in Threads : newPool[u] # None})
         /\ newPool' = [newPool EXCEPT ![t] = p]
    /\ bootPc' = [bootPc EXCEPT ![t] = "initialize"]
    /\ UNCHANGED <<global_pool, self_pool, poolConns, poolVars, ingestVars, repoVars>>

\* one iteration of the loop of _initialize_pool: sqlite3.connect and put
InitializeStep(t) ==
    /\ bootPc[t] = "initialize"
    /\ poolConns[newPool[t]] < PoolSize
    /\ poolConns' = [poolConns EXCEPT ![newPool[t]] = @ + 1]
    /\ UNCHANGED <<global_pool, bootPc, newPool, self_pool, poolVars, ingestVars, repoVars>>

\* "_connection_pool = DatabaseConnectionPool(...)" and "return _connection_pool"
AssignGlobal(t) ==
    /\ bootPc[t] = "initialize"
    /\ poolConns[newPool[t]] = PoolSize
    /\ global_pool' = newPool[t]
    /\ self_pool' = [self_pool EXCEPT ![t] = newPool[t]]
    /\ bootPc' = [bootPc EXCEPT ![t] = "done"]
    /\ UNCHANGED <<newPool, poolConns, poolVars, ingestVars, repoVars>>

NextBoot ==
    \/ \E t \in Threads : CheckGlobal(t)
    \/ \E t \in Threads : Construct(t)
    \/ \E t \in Threads : InitializeStep(t)
    \/ \E t \in Threads : AssignGlobal(t)

(***************************************************************************)
(* Ingestion: migrate_mat_files, load_channel_data, save_binary_data       *)
(***************************************************************************)
Dirs == 1..NumDirs

\* What a directory of the source tree can hold: n1 / n4 files whose names
\* end in _ch1.mat / _ch4.mat, and the number of samples load_channel_data
\* finds in them (-1: the file cannot be loaded)
DirKinds ==
    { [n1 |-> 1, n4 |-> 1, len1 |-> 2, len4 |-> 2],
      [n1 |-> 1, n4 |-> 1, len1 |-> MaxSamples + 1, len4 |-> MaxSamples + 2],
      [n1 |-> 1, n4 |-> 0, len1 |-> 2, len4 |-> 2],
      [n1 |-> 1, n4 |-> 1, len1 |-> 2, len4 |-> -1],
      [n1 |-> 2, n4 |-> 1, len1 |-> 1, len4 |-> 2] }

\* The path of directory d below SOURCE_DATA_DIR: <<parent, name>>; two
\* directories may have the same name under different parents
ParentNames == <<"arc_matrix_experiment", "steady_state", "misc">>
ExperimentNames == <<"exp_a", "exp_b", "exp_c", "exp_d">>
DirPath(d) == <<ParentNames[((d - 1) % 3) + 1], ExperimentNames[(d + 1) \div 2]>>
\* os.path.basename
Basename(path) == path[Len(path)]

LABEL_DIRECTORIES ==
    [l \in {"arc_matrix_experiment", "arc_matrix_experiment_with_parallel_motor",
            "transient_negative_test", "steady_state"} |->
        CASE l = "arc_matrix_experiment" -> "arc"
          [] l = "arc_matrix_experiment_with_parallel_motor" -> "parallel_motor_arc"
          [] l = "transient_negative_test" -> "negative_transient"
          [] l = "steady_state" -> "steady_state"]

\* extract_experiment_info: the first path part that names a label directory
LabelDir(path) ==
    LET hits == {i \in 1..Len(path) : path[i] \in DOMAIN LABEL_DIRECTORIES}
    IN IF hits = {} THEN "none"
       ELSE path[CHOOSE i \in hits : \A j \in hits : i <= j]

\* LABEL_DIRECTORIES.get(label_dir, 'unknown')
SelectedLabel(label_dir) ==
    IF label_dir \in DOMAIN LABEL_DIRECTORIES
      THEN LABEL_DIRECTORIES[label_dir] ELSE "unknown"

\* The samples stored in file number f of channel ch of directory d
RawSamples(d, ch, f, len) == [k \in 1..len |-> 1000 * d + 100 * ch + 10 * f + k]

\* (faulty variant: the data is not limited to max_samples)
LoadChannelDataNoCap(d, ch, f, len) ==
    IF f = 0 \/ len < 0 THEN [none |-> TRUE, data |-> <<>>]
    ELSE [none |-> FALSE, data |-> RawSamples(d, ch, f, len)]
\* load_channel_data: None when the file cannot be loaded (f = 0: there is
\* no such file), else the flat data limited to max_samples
LoadChannelData(d, ch, f, len) ==
    IF f = 0 \/ len < 0 THEN [none |-> TRUE, data |-> <<>>]
    ELSE [none |-> FALSE,
          data |-> IF len > MaxSamples
                     THEN SubSeq(RawSamples(d, ch, f, len), 1, MaxSamples)
                     ELSE RawSamples(d, ch, f, len)]

\* The directory scan: a directory is an experiment when a _ch1.mat and a
\* _ch4.mat file were seen in it; the last file seen of each kind is kept
\* (faulty variant of the test: the channel-1 file alone is required)
IsExperimentCh1Only(k) == k.n1 > 0
IsExperiment(k) == k.n1 > 0 /\ k.n4 > 0
RECURSIVE ScanFrom(_, _)
ScanFrom(t, d) ==
    IF d > NumDirs THEN <<>>
    ELSE (IF IsExperiment(t[d])
            THEN <<[dir |-> d, ch1_file |-> t[d].n1, ch4_file |-> t[d].n4]>>
            ELSE <<>>) \o ScanFrom(t, d + 1)
Scan(t) == ScanFrom(t, 1)

\* f"{file_id:08d}.npy": eight decimal digits, zero padded, and the
\* extension; a file name is the sequence of its characters
DigitChars == <<"0", "1", "2", "3", "4", "5", "6", "7", "8", "9">>
\* (faulty variant: one name for every identifier)
BinaryFilenameOne(id) == [i \in 1..8 |-> "0"] \o <<".", "n", "p", "y">>
BinaryFilename(id) ==
    [i \in 1..8 |-> DigitChars[((id \div (10 ^ (8 - i))) % 10) + 1]]
        \o <<".", "n", "p", "y">>
\* the placeholder 'pending' of the INSERT
Pending == <<"p", "e", "n", "d", "i", "n", "g">>

\* np.column_stack: row k is <<load_voltage[k], source_current[k]>>
ColumnStack(a, b) == [k \in 1..Len(a) |-> <<a[k], b[k]>>]

\* combined_data.tobytes(): the rows one after the other
RECURSIVE ToBytes(_)
ToBytes(data) ==
    IF data = <<>> THEN <<>> ELSE Head(data) \o ToBytes(Tail(data))

\* hashlib.md5(...).hexdigest(), as a digest of the byte sequence
RECURSIVE Digest(_, _)
Digest(h, bytes) ==
    IF bytes = <<>> THEN h
    ELSE Digest((h * 31 + Head(bytes)) % 65521, Tail(bytes))
Md5(bytes) == Digest(7, bytes)

\* What the loop body loads for an item of experiment_dirs
LoadVoltageOf(item) ==
    LoadChannelData(item.dir, 1, item.ch1_file, tree[item.dir].len1)
SourceCurrentOf(item) ==
    LoadChannelData(item.dir, 4, item.ch4_file, tree[item.dir].len4)
\* "min_len = min(len(load_voltage_data), len(source_current_data))"
MinLenOf(item) ==
    LET a == Len(LoadVoltageOf(item).data)
        b == Len(SourceCurrentOf(item).data)
    IN IF a <= b THEN a ELSE b
\* both channels cut to min_len and handed to save_binary_data
CombinedDataOf(item) ==
    ColumnStack(SubSeq(LoadVoltageOf(item).data, 1, MinLenOf(item)),
                SubSeq(SourceCurrentOf(item).data, 1, MinLenOf(item)))

\* The item of the current iteration
Item == experiment_dirs[idx]
MinLen == MinLenOf(Item)
CombinedData == CombinedDataOf(Item)

NoFile == [x \in {} |-> 0]

\* main(): the schema exists, the catalog and the blob directory are empty;
\* the source tree is one of trees
InitIngest(trees) ==
    /\ tree \in trees
    /\ files_committed = {}
    /\ seq_committed = 0
    /\ files = {}
    /\ seq = 0
    /\ disk = NoFile
    /\ runPc = "idle"
    /\ experiment_dirs = <<>>
    /\ idx = 0
    /\ processed_count = 0
    /\ error_count = 0
    /\ file_id = None
    /\ runs = 0

Running == runPc \in {"load", "insert", "save", "write", "update", "commit_check"}

\* migrate_mat_files up to the loop: the scan, sqlite3.connect, the counters
StartRun ==
    /\ runPc \in {"idle", "done", "crashed"}
    /\ runs < MaxRuns
    /\ runs' = runs + 1
    /\ experiment_dirs' = Scan(tree)
    /\ files' = files_committed
    /\ seq' = seq_committed
    /\ processed_count' = 0
    /\ error_count' = 0
    /\ idx' = 1
    /\ file_id' = None
    /\ runPc' = "load"
    /\ UNCHANGED <<tree, files_committed, seq_committed, disk, poolVars, bootVars, repoVars>>

\* the next iteration of the loop begins
NextItem ==
    /\ idx' = idx + 1
    /\ file_id' = None
    /\ runPc' = "load"

\* (faulty variant: the exception leaves the loop and ends the run)
ExceptAbort ==
    /\ runPc' = "aborted"
    /\ UNCHANGED <<idx, file_id, error_count>>
\* the "except Exception" clause of the loop body
ExceptClause ==
    /\ error_count' = error_count + 1
    /\ NextItem

\* lines 197-221: both channels are loaded; a channel that is None counts
\* an error and continues with the next directory
LoadItem ==
    /\ runPc = "load"
    /\ idx <= Len(experiment_dirs)
    /\ IF ~LoadVoltageOf(Item).none /\ ~SourceCurrentOf(Item).none
         THEN /\ runPc' = "insert"
              /\ UNCHANGED <<idx, file_id, error_count>>
         ELSE /\ error_count' = error_count + 1
              /\ NextItem
    /\ UNCHANGED <<tree, files_committed, seq_committed, files, seq, disk,
                   experiment_dirs, processed_count, runs, poolVars, bootVars, repoVars>>

\* (faulty variant: a table without the constraint)
NoUniqueCheck(rows, path, name) == FALSE
\* (faulty variant: the constraint does not see rows that still carry the
\* placeholder)
UniqueAmongComplete(rows, path, name) ==
    \E r \in rows : /\ r.original_path = path /\ r.original_filename = name
                    /\ r.binary_data_path # Pending
\* UNIQUE(original_path, original_filename) of table files
UniqueViolated(rows, path, name) ==
    \E r \in rows : r.original_path = path /\ r.original_filename = name

\* a connection of the service has an open write transaction
ServiceWrites == \E h \in Handles : txn[h].open
\* the connection of migrate_mat_files has an open write transaction
IngestWrites == files # files_committed \/ seq # seq_committed

\* lines 224-242: INSERT INTO files with binary_data_path 'pending'; the
\* row gets the next AUTOINCREMENT identifier; a duplicate raises
\* IntegrityError and a database locked by a writing connection of the
\* service raises OperationalError, which the except clause counts
InsertRow ==
    /\ runPc = "insert"
    /\ LET path == DirPath(Item.dir)
           name == Basename(path)
       IN IF UniqueViolated(files, path, name) \/ ServiceWrites
            THEN /\ ExceptClause
                 /\ UNCHANGED <<files, seq>>
            ELSE /\ files' = files \cup
                       {[file_id |-> seq + 1,
                         original_filename |-> name,
                         original_path |-> path,
                         original_label_directory |-> LabelDir(path),
                         selected_label |-> SelectedLabel(LabelDir(path)),
                         transient1_index |-> None,
                         transient2_index |-> None,
                         transient3_index |-> None,
                         binary_data_path |-> Pending,
                         data_checksum |-> None,
                         total_samples |-> MinLen]}
                 /\ seq' = seq + 1
                 /\ file_id' = seq + 1
                 /\ runPc' = "save"
                 /\ UNCHANGED <<idx, error_count>>
    /\ UNCHANGED <<tree, files_committed, seq_committed, disk,
                   experiment_dirs, processed_count, runs, poolVars, bootVars, repoVars>>

\* (faulty variants: the blob is named after another identifier)
SaveNamePrevious(id) == BinaryFilename(id - 1)
SaveNameNext(id) == BinaryFilename(id + 1)
\* the name save_binary_data writes to
SaveName(id) == BinaryFilename(id)

\* np.save opens the file for writing, which creates or empties it; when
\* the open fails (IOError) the except clause counts the item
SaveOpen ==
    /\ runPc = "save"
    /\ \/ /\ disk' = (SaveName(file_id) :> [complete |-> FALSE, data |-> <<>>]) @@ disk
          /\ runPc' = "write"
          /\ UNCHANGED <<idx, file_id, error_count>>
       \/ /\ ExceptClause
          /\ UNCHANGED disk
    /\ UNCHANGED <<tree, files_committed, seq_committed, files, seq,
                   experiment_dirs, processed_count, runs, poolVars, bootVars, repoVars>>

\* np.save writes the array; a write that fails part-way (IOError) leaves
\* the file as it is and the except clause counts the item
SaveWrite ==
    /\ runPc = "write"
    /\ \/ /\ disk' = (SaveName(file_id) :> [complete |-> TRUE, data |-> CombinedData]) @@ disk
          /\ runPc' = "update"
          /\ UNCHANGED <<idx, file_id, error_count>>
       \/ /\ ExceptClause
          /\ UNCHANGED disk
    /\ UNCHANGED <<tree, files_committed, seq_committed, files, seq,
                   experiment_dirs, processed_count, runs, poolVars, bootVars, repoVars>>

\* lines 247-255: UPDATE files SET binary_data_path, data_checksum for the
\* identifier of the item; processed_count += 1
UpdateRow ==
    /\ runPc = "update"
    /\ files' = {IF r.file_id = file_id
                   THEN [r EXCEPT !.binary_data_path = BinaryFilename(file_id),
                                  !.data_checksum = Md5(ToBytes(CombinedData))]
                   ELSE r : r \in files}
    /\ processed_count' = processed_count + 1
    /\ runPc' = "commit_check"
    /\ UNCHANGED <<tree, files_committed, seq_committed, seq, disk, experiment_dirs,
                   idx, error_count, file_id, runs, poolVars, bootVars, repoVars>>

\* lines 260-263: "if processed_count % 10 == 0: conn.commit()"; the commit
\* is inside the try block: when it raises sqlite3.Error (database is
\* locked, disk I/O error) the transaction stays open and the except
\* clause counts the item
CommitDue(n) == n % CommitEvery = 0
CommitCheck ==
    /\ runPc = "commit_check"
    /\ IF CommitDue(processed_count)
         THEN \/ /\ files_committed' = files
                 /\ seq_committed' = seq
                 /\ NextItem
                 /\ UNCHANGED error_count
              \/ /\ ExceptClause
                 /\ UNCHANGED <<files_committed, seq_committed>>
         ELSE /\ NextItem
              /\ UNCHANGED <<files_committed, seq_committed, error_count>>
    /\ UNCHANGED <<tree, files, seq, disk, experiment_dirs, processed_count,
                   runs, poolVars, bootVars, repoVars>>

\* lines 269-276: the loop is over: conn.commit(), conn.close(), the summary
FinishRun ==
    /\ runPc = "load"
    /\ idx > Len(experiment_dirs)
    /\ files_committed' = files
    /\ seq_committed' = seq
    /\ runPc' = "done"
    /\ UNCHANGED <<tree, files, seq, disk, experiment_dirs, idx, processed_count,
                   error_count, file_id, runs, poolVars, bootVars, repoVars>>

\* The process dies inside the loop: the open transaction is lost, the
\* blob directory stays as it is
Crash ==
    /\ Running
    /\ files' = files_committed
    /\ seq' = seq_committed
    /\ file_id' = None
    /\ runPc' = "crashed"
    /\ UNCHANGED <<tree, files_committed, seq_committed, disk, experiment_dirs, idx,
                   processed_count, error_count, runs, poolVars, bootVars, repoVars>>

NextIngest ==
    \/ StartRun
    \/ LoadItem
    \/ InsertRow
    \/ SaveOpen
    \/ SaveWrite
    \/ UpdateRow
    \/ CommitCheck
    \/ FinishRun
    \/ Crash

(***************************************************************************)
(* V3Database operations on a catalog and the endpoints of api/files.py    *)
(***************************************************************************)
\* File identifiers of requests: those of the ingested files and an
\* identifier that is well formed but not in the catalog
AbsentId == NumDirs + 1
FileIds == 1..AbsentId
\* labels sent by clients (neither layer validates them)
NewLabels == {"weak_arc", "other"}
\* LABEL_TYPES of operations.py: key -> label
LABEL_TYPES ==
    [k \in {"1", "2", "3", "4", "5", "6", "7", "8", "0"} |->
        CASE k = "1" -> "arc"
          [] k = "2" -> "weak_arc"
          [] k = "3" -> "restriking_arc"
          [] k = "4" -> "parallel_motor_arc"
          [] k = "5" -> "negative_transient"
          [] k = "6" -> "steady_state"
          [] k = "7" -> "restriking_arc_parallel_motor"
          [] k = "8" -> "parallel_motor_continuous"
          [] k = "0" -> "other"]

\* no call made yet
NoReq == [op |-> "none", id |-> None, arg |-> <<>>]
\* a connection without an open transaction; writes: file_id -> the
\* selected_label of its uncommitted UPDATE
NoWrites == [x \in {} |-> ""]
NoTxn == [open |-> FALSE, writes |-> NoWrites]

InitRepoVars ==
    /\ req = [c \in Callers |-> NoReq]
    /\ value = [c \in Callers |-> <<>>]
    /\ txn = [h \in Handles |-> NoTxn]
    /\ lastWrite = [i \in FileIds |-> <<>>]
    /\ experiment_status = {}
    /\ rejections = {}

\* The row a run of migrate_mat_files leaves for item i of its scan when
\* nothing fails: the INSERT of lines 224-240 and the UPDATE of lines 249-252
IngestedRow(i) ==
    LET item == Scan(tree)[i]
        path == DirPath(item.dir)
    IN [file_id |-> i,
        original_filename |-> Basename(path),
        original_path |-> path,
        original_label_directory |-> LabelDir(path),
        selected_label |-> SelectedLabel(LabelDir(path)),
        transient1_index |-> None,
        transient2_index |-> None,
        transient3_index |-> None,
        binary_data_path |-> BinaryFilename(i),
        data_checksum |-> Md5(ToBytes(CombinedDataOf(item))),
        total_samples |-> MinLenOf(item)]

\* What can be found under the blob name of file 1 when the service runs:
\* the array the ingestion wrote, a file np.load cannot parse, or nothing
BlobStates == {"written", "unparsable", "missing"}
IngestedDisk(blob1) ==
    [n \in {BinaryFilename(i) : i \in 1..Len(Scan(tree))} \
           (IF blob1 = "missing" THEN {BinaryFilename(1)} ELSE {}) |->
        IF n = BinaryFilename(1) /\ blob1 = "unparsable"
          THEN [complete |-> FALSE, data |-> <<>>]
          ELSE [complete |-> TRUE,
                data |-> CombinedDataOf(Scan(tree)[CHOOSE i \in 1..Len(Scan(tree)) :
                                                       BinaryFilename(i) = n])]]

\* Directories the scan selects and whose channels load
LoadableKinds == {k \in DirKinds : IsExperiment(k) /\ k.len1 >= 0 /\ k.len4 >= 0}

\* The state in which the service starts: the catalog and the blob
\* directory as a complete run of migrate_mat_files over one of trees left
\* them, and the blob of file 1 in one of blobs
InitCatalog(trees, blobs) ==
    /\ tree \in trees
    /\ files_committed = {IngestedRow(i) : i \in 1..Len(Scan(tree))}
    /\ seq_committed = Len(Scan(tree))
    /\ files = files_committed
    /\ seq = seq_committed
    /\ \E b \in blobs : disk = IngestedDisk(b)
    /\ runPc = "done"
    /\ experiment_dirs = Scan(tree)
    /\ idx = Len(experiment_dirs) + 1
    /\ processed_count = Len(experiment_dirs)
    /\ error_count = 0
    /\ file_id = None
    /\ runs = 1

\* The columns of the SELECT of get_file_by_id, in its order (voltage_level,
\* current_level and sampling_rate are not modelled and carried as None)
SelectRow(r) ==
    <<r.file_id, r.original_filename, r.original_path, r.selected_label,
      r.transient1_index, r.transient2_index, r.transient3_index,
      None, None, r.binary_data_path, r.total_samples, None>>

\* Table files as connection h reads it: the committed rows with the
\* uncommitted updates of the connection's own open transaction
FilesSeenBy(h) ==
    {IF r.file_id \in DOMAIN txn[h].writes
       THEN [r EXCEPT !.selected_label = txn[h].writes[r.file_id]]
       ELSE r : r \in files_committed}

\* cursor.fetchone() of "SELECT ... FROM files WHERE file_id = ?": None
\* (the empty sequence) or the row, in a sequence of one element
FetchOne(h, id) ==
    LET hits == {r \in FilesSeenBy(h) : r.file_id = id}
    IN IF hits = {} THEN <<>> ELSE <<SelectRow(CHOOSE r \in hits : TRUE)>>

\* data[:, k] of the loaded array
Column(data, k) == [j \in 1..Len(data) |-> data[j][k]]

\* (None, None)
NoData == << <<>>, <<>> >>
\* (faulty variant: the columns are read in the other order)
LoadColumnsSwapped(data) == << <<Column(data, 2)>>, <<Column(data, 1)>> >>
\* "load_voltage_data = data[:, 0]; source_current_data = data[:, 1]"
LoadColumns(data) == << <<Column(data, 1)>>, <<Column(data, 2)>> >>

\* load_file_data on a blob name: the path exists and np.load parses it
BlobLoads(name) == name \in DOMAIN disk /\ disk[name].complete

\* load_file_data after its get_file_by_id returned file_info: the pair
\* (load_voltage_data, source_current_data), each None (the empty sequence)
\* or the array in a sequence of one element
LoadFileData(file_info) ==
    IF file_info = <<>> THEN NoData
    ELSE LET binary_filename == file_info[1][9 + 1]
         IN IF binary_filename \notin DOMAIN disk THEN NoData
            ELSE IF ~BlobLoads(binary_filename) THEN NoData
            ELSE LoadColumns(disk[binary_filename].data)

\* Requests that reach a with-style repository operation
GetRequests == {[op |-> "get_file_by_id", id |-> i, arg |-> <<>>] : i \in {1, AbsentId}}
LoadRequests == {[op |-> "load_file_data", id |-> i, arg |-> <<>>] : i \in FileIds}
LabelRequests == {[op |-> "update_file_label", id |-> 1, arg |-> <<l>>] : l \in NewLabels}
\* a label update for a file that is not in the catalog
AbsentLabelRequests == {[op |-> "update_file_label", id |-> AbsentId, arg |-> <<"other">>]}
\* PUT .../label with a label that is not one of LABEL_TYPES
InvalidLabelRequests == {[op |-> "update_file_label", id |-> 1, arg |-> <<"not_a_label">>]}
\* PUT .../label with a body that has no label
NoLabelRequests == {[op |-> "update_file_label", id |-> 1, arg |-> <<>>]}
\* Requests that reach an operation written as "conn = self.get_connection()"
TransientRequests ==
    {[op |-> "update_transient_indices", id |-> i, arg |-> <<5, None, None>>] :
        i \in {1, AbsentId}}
StatusRequests ==
    {[op |-> "update_experiment_status", id |-> 1, arg |-> <<s>>] : s \in {"reject", "keep"}}
RejectionRequests == {[op |-> "add_rejection", id |-> 1, arg |-> <<>>]}
\* search_files() and get_files_by_status() with every predicate omitted
SearchRequests == {[op |-> "search_files", id |-> None, arg |-> <<>>]}
ListByStatusRequests == {[op |-> "get_files_by_status", id |-> None, arg |-> <<>>]}

\* another caller is inside update_file_label
OtherLabelUpdate(c) ==
    \E d \in Callers \ {c} : pc[d] # "idle" /\ req[d].op = "update_file_label"

\* The endpoint calls a with-style operation: get_connection sets
\* conn = None and calls self.pool.get(timeout=self.timeout)
RepoCall(c, r) ==
    /\ pc[c] = "idle"
    /\ r \in GetRequests \cup LoadRequests \cup LabelRequests \cup AbsentLabelRequests
             \cup InvalidLabelRequests
    /\ req' = [req EXCEPT ![c] = r]
    /\ value' = [value EXCEPT ![c] = <<>>]
    /\ pc' = [pc EXCEPT ![c] = "waiting"]
    /\ conn' = [conn EXCEPT ![c] = None]
    /\ timedOut' = [timedOut EXCEPT ![c] = FALSE]
    /\ result' = [result EXCEPT ![c] = "none"]
    /\ lastWrite' = IF r.op = "update_file_label"
                      THEN [i \in FileIds |-> <<>>] ELSE lastWrite
    /\ UNCHANGED <<pool, closed, closePc, txn, experiment_status, rejections,
                   bootVars, ingestVars>>

\* update_file_label of files.py, lines 171-176: "if not data or 'label'
\* not in data" answers 400 and the repository is not called
NoLabelCall(c, r) ==
    /\ pc[c] = "idle"
    /\ r \in NoLabelRequests
    /\ req' = [req EXCEPT ![c] = r]
    /\ value' = [value EXCEPT ![c] = <<>>]
    /\ result' = [result EXCEPT ![c] = "missing_label"]
    /\ UNCHANGED <<pool, closed, pc, conn, timedOut, closePc, txn, lastWrite,
                   experiment_status, rejections, bootVars, ingestVars>>

\* update_transient_indices, update_experiment_status, add_rejection (which
\* calls update_experiment_status), search_files, get_files_by_status:
\* "conn = self.get_connection()" is the context manager itself, never
\* entered, and "cursor = conn.cursor()" raises AttributeError; in
\* update_experiment_status that line is before the try block. No statement
\* reaches the database
AdHocCall(c, r) ==
    /\ pc[c] = "idle"
    /\ r \in TransientRequests \cup StatusRequests \cup RejectionRequests
             \cup SearchRequests \cup ListByStatusRequests
    /\ req' = [req EXCEPT ![c] = r]
    /\ value' = [value EXCEPT ![c] = <<>>]
    /\ result' = [result EXCEPT ![c] = "AttributeError"]
    /\ UNCHANGED <<pool, closed, pc, conn, timedOut, closePc, txn, lastWrite,
                   experiment_status, rejections, bootVars, ingestVars>>

\* self.timeout seconds after the pool.get began the queue is empty:
\* pool.get raises Empty, get_connection raises "Database connection pool
\* exhausted" and its finally clause runs with conn = None
RepoTimesOut(c) ==
    /\ pc[c] = "waiting"
    /\ pool = <<>>
    /\ pool' = FinallyPut(pool, conn[c])
    /\ pc' = [pc EXCEPT ![c] = "idle"]
    /\ result' = [result EXCEPT ![c] = "pool_exhausted"]
    /\ UNCHANGED <<closed, conn, timedOut, closePc, bootVars, ingestVars, repoVars>>

\* the with block is left: the finally clause of get_connection
Release(c, outcome) ==
    /\ pool' = FinallyPut(pool, conn[c])
    /\ pc' = [pc EXCEPT ![c] = "idle"]
    /\ conn' = [conn EXCEPT ![c] = None]
    /\ result' = [result EXCEPT ![c] = outcome]
    /\ UNCHANGED <<closed, timedOut, closePc>>

\* The body of get_file_by_id (lines 134-144), and for load_file_data the
\* rest of it (lines 149-167): the SELECT raises sqlite3.Error or fetchone
\* gives the row
GetFileBody(c) ==
    /\ pc[c] = "holding"
    /\ req[c].op \in {"get_file_by_id", "load_file_data"}
    /\ \/ /\ value' = [value EXCEPT ![c] =
                         IF req[c].op = "get_file_by_id"
                           THEN FetchOne(conn[c], req[c].id)
                           ELSE LoadFileData(FetchOne(conn[c], req[c].id))]
          /\ Release(c, "ok")
       \/ /\ UNCHANGED value
          /\ Release(c, "sqlite_error")
    /\ UNCHANGED <<req, txn, lastWrite, experiment_status, rejections,
                   bootVars, ingestVars>>

\* update_file_label, lines 172-177: the UPDATE opens a transaction on the
\* connection and changes the row the WHERE clause finds, if any; it raises
\* sqlite3.Error (database is locked) while another connection, of the pool
\* or of a running migrate_mat_files, has an open write transaction, and
\* may raise it for any other storage failure
LabelExecute(c) ==
    /\ pc[c] = "holding"
    /\ req[c].op = "update_file_label"
    /\ \/ /\ \A h \in Handles \ {conn[c]} : ~txn[h].open
          /\ ~IngestWrites
          /\ txn' = [txn EXCEPT ![conn[c]] =
                       [open |-> TRUE,
                        writes |-> IF FetchOne(conn[c], req[c].id) # <<>>
                                     THEN (req[c].id :> req[c].arg[1]) @@ @.writes
                                     ELSE @.writes]]
          /\ pc' = [pc EXCEPT ![c] = "executed"]
          /\ UNCHANGED <<pool, closed, conn, timedOut, result, closePc>>
       \/ /\ Release(c, "sqlite_error")
          /\ UNCHANGED txn
    /\ UNCHANGED <<req, value, lastWrite, experiment_status, rejections,
                   bootVars, ingestVars>>

\* (faulty variant: the commit is left out, the transaction stays open)
CommitNothing(rows, h) == rows
\* (faulty variant: the table is replaced by the rows the transaction wrote)
CommitWrittenOnly(rows, h) ==
    {r \in FilesSeenBy(h) : r.file_id \in DOMAIN txn[h].writes}
\* conn.commit(): the rows as the connection sees them become the
\* committed rows
CommitRows(rows, h) == FilesSeenBy(h)

\* update_file_label, line 179: conn.commit() succeeds and the call
\* returns (every connection without a transaction of its own, that of a
\* running migrate_mat_files included, reads the new rows), or it raises sqlite3.Error and the with block is left with the
\* transaction still open on the connection (nothing rolls it back)
LabelCommit(c) ==
    /\ pc[c] = "executed"
    /\ \/ /\ files_committed' = CommitRows(files_committed, conn[c])
          /\ files' = files_committed'
          /\ txn' = [txn EXCEPT ![conn[c]] = NoTxn]
          /\ lastWrite' = [i \in FileIds |->
                             IF i \in DOMAIN txn[conn[c]].writes /\ ~OtherLabelUpdate(c)
                               THEN <<txn[conn[c]].writes[i]>> ELSE <<>>]
          /\ Release(c, "ok")
       \/ /\ Release(c, "sqlite_error")
          /\ UNCHANGED <<files_committed, files, txn, lastWrite>>
    /\ UNCHANGED <<req, value, experiment_status, rejections, bootVars,
                   tree, seq_committed, seq, disk, runPc, experiment_dirs,
                   idx, processed_count, error_count, file_id, runs>>

\* str(e) of the exception a repository call ended with
ExceptionText(outcome) ==
    CASE outcome = "pool_exhausted" -> "Database connection pool exhausted"
      [] outcome = "sqlite_error" -> "sqlite3 error text"
      [] outcome = "AttributeError" ->
             "'_GeneratorContextManager' object has no attribute 'cursor'"
      [] OTHER -> ""

\* (faulty variant: the clause for Exception comes first and takes all)
HandleErrorsGeneric(exc) ==
    [code |-> 500, status |-> "error", error_type |-> "internal_error",
     message |-> "Internal server error"]
\* handle_errors: the response for the class of the exception raised
HandleErrors(exc) ==
    CASE exc = "ValueError" ->
             [code |-> 400, status |-> "error", error_type |-> "validation_error",
              message |-> "File ID must be a positive integer"]
      [] exc = "sqlite_error" ->
             [code |-> 500, status |-> "error", error_type |-> "database_error",
              message |-> "Database operation failed"]
      [] exc = "FileNotFoundError" ->
             [code |-> 404, status |-> "error", error_type |-> "file_not_found",
              message |-> "Requested file not found"]
      [] OTHER ->
             [code |-> 500, status |-> "error", error_type |-> "internal_error",
              message |-> "Internal server error"]

\* the answer of an endpoint that builds its own error responses
Plain(code, status, message) ==
    [code |-> code, status |-> status, error_type |-> "", message |-> message]

\* get_file (decorated with handle_errors)
GetFileResponse(r, outcome, val) ==
    IF r.id <= 0 THEN HandleErrors("ValueError")
    ELSE IF outcome # "ok" THEN HandleErrors(outcome)
    ELSE IF val = <<>> THEN HandleErrors("FileNotFoundError")
    ELSE Plain(200, "success", "")

\* get_file_data
GetFileDataResponse(r, outcome, val) ==
    IF outcome # "ok" THEN Plain(500, "error", ExceptionText(outcome))
    ELSE IF val[1] = <<>> THEN Plain(404, "error", "File data not found")
    ELSE Plain(200, "success", "")

\* update_file_label (the endpoint) and update_transients
UpdateResponse(r, outcome, val) ==
    IF outcome = "missing_label" THEN Plain(400, "error", "Missing label in request")
    ELSE IF outcome # "ok" THEN Plain(500, "error", ExceptionText(outcome))
    ELSE Plain(200, "success", "Updated")

\* search_files (the endpoint)
SearchResponse(r, outcome, val) ==
    IF outcome # "ok" THEN Plain(500, "error", ExceptionText(outcome))
    ELSE Plain(200, "success", "")

\* The response the endpoint of operation r.op gives for the way the
\* operation ended; update_experiment_status, add_rejection and
\* get_files_by_status have no endpoint in files.py
EndpointResponse(r, outcome, val) ==
    CASE r.op = "get_file_by_id" -> GetFileResponse(r, outcome, val)
      [] r.op = "load_file_data" -> GetFileDataResponse(r, outcome, val)
      [] r.op \in {"update_file_label", "update_transient_indices"} ->
             UpdateResponse(r, outcome, val)
      [] r.op = "search_files" -> SearchResponse(r, outcome, val)
      [] OTHER -> Plain(None, "no endpoint", "")

\* the response caller c received for its last request
Response(c) == EndpointResponse(req[c], result[c], value[c])

\* the last request of caller c has been answered
Answered(c) == pc[c] = "idle" /\ result[c] # "none"

\* Request threads calling through the pool concurrently: every thread
\* reads with get_file_by_id, and one of them also writes labels
NextRepo ==
    \/ \E c \in Callers, r \in GetRequests : RepoCall(c, r)
    \/ \E r \in LabelRequests : RepoCall(1, r)
    \/ \E c \in Callers : PoolGet(c)
    \/ \E c \in Callers : RepoTimesOut(c)
    \/ \E c \in Callers : GetFileBody(c)
    \/ \E c \in Callers : LabelExecute(c)
    \/ \E c \in Callers : LabelCommit(c)

\* One client making the calls of the file API one after the other
NextCalls ==
    \/ \E r \in GetRequests \cup LoadRequests \cup AbsentLabelRequests
                  \cup InvalidLabelRequests :
           RepoCall(1, r)
    \/ \E r \in NoLabelRequests : NoLabelCall(1, r)
    \/ \E r \in TransientRequests \cup StatusRequests \cup RejectionRequests
                  \cup SearchRequests \cup ListByStatusRequests :
           AdHocCall(1, r)
    \/ PoolGet(1)
    \/ GetFileBody(1)
    \/ LabelExecute(1)
    \/ LabelCommit(1)

\* migrate_mat_files running while one client of the service reads file
\* data
NextReaders ==
    \/ NextIngest
    \/ \E r \in LoadRequests : RepoCall(1, r)
    \/ PoolGet(1)
    \/ GetFileBody(1)

\* migrate_mat_files running while one client of the service updates the
\* label of file 1 and calls the operations on its transients, status and
\* rejection
NextWriters ==
    \/ NextIngest
    \/ \E r \in {q \in LabelRequests : q.arg = <<"weak_arc">>} : RepoCall(1, r)
    \/ \E r \in {q \in TransientRequests \cup StatusRequests \cup RejectionRequests :
                     q.id = 1 /\ q.arg # <<"keep">>} :
           AdHocCall(1, r)
    \/ PoolGet(1)
    \/ LabelExecute(1)
    \/ LabelCommit(1)

(***************************************************************************)
(* Specifications                                                          *)
(***************************************************************************)
\* a source tree of valid experiment directories only
PlainTree == [d \in Dirs |-> [n1 |-> 1, n4 |-> 1, len1 |-> 2, len4 |-> 2]]

Init == InitPool /\ InitBoot /\ InitIngest({PlainTree}) /\ InitRepoVars

SpecPool == Init /\ [][NextPool]_vars

\* A thread blocked in Queue.get is woken by a put or by its deadline and
\* then either takes a handle or raises Empty; the clock advances
FairSpecPool ==
    /\ SpecPool
    /\ \A c \in Callers : WF_vars(TimerExpires(c))
    /\ \A c \in Callers : WF_vars(PoolGet(c) \/ GetTimesOut(c))

SpecBoot == Init /\ [][NextBoot]_vars

\* the ingestion, over every source tree
InitAnyTree == InitPool /\ InitBoot /\ InitIngest([Dirs -> DirKinds]) /\ InitRepoVars

SpecIngest == InitAnyTree /\ [][NextIngest]_vars

\* the service over the catalog of an ingested tree
InitService ==
    InitPool /\ InitBoot /\ InitRepoVars /\ InitCatalog({PlainTree}, {"written"})

SpecRepo == InitService /\ [][NextRepo]_vars

\* the calls of one client, over the catalogs of the trees that ingest
\* without a failure and every state of the blob of file 1
InitAnyCatalog ==
    InitPool /\ InitBoot /\ InitRepoVars
        /\ InitCatalog({[d \in Dirs |-> k] : k \in LoadableKinds}, BlobStates)

SpecCalls == InitAnyCatalog /\ [][NextCalls]_vars

\* the ingestion of a tree into an empty catalog while the service runs
SpecReaders == Init /\ [][NextReaders]_vars
SpecWriters == Init /\ [][NextWriters]_vars

(***************************************************************************)
(* Claims about the connection pool                                        *)
(***************************************************************************)
Held == {c \in Callers : pc[c] = "holding"}
Free == {pool[i] : i \in 1..Len(pool)}

\* C1: the number of handles simultaneously held by callers never exceeds
\* the capacity of the pool, no handle is held by two callers at once, and a
\* held handle is not in the free queue.
C1_PoolBound ==
    /\ Cardinality(Held) <= PoolSize
    /\ \A c1, c2 \in Held : c1 # c2 => conn[c1] # conn[c2]
    /\ \A c \in Held : conn[c] \in Handles /\ conn[c] \notin Free

\* every handle is held while another caller is blocked in pool.get
C1_Witness ==
    /\ Cardinality(Held) = PoolSize
    /\ \E c \in Callers : pc[c] = "waiting"

\* C2: a get_connection call blocked in pool.get does not block forever; it
\* leaves pool.get exactly once, and when it does so while no handle is free
\* it ends the call with the pool-exhausted error instead of trying again.
C2_TimesOut ==
    /\ \A c \in Callers : (pc[c] = "waiting") ~> (pc[c] # "waiting")
    /\ [][\A c \in Callers :
            (pc[c] = "waiting" /\ pc'[c] # "waiting") =>
                IF pool = <<>>
                  THEN pc'[c] = "idle" /\ result'[c] = "pool_exhausted"
                  ELSE pc'[c] = "holding"]_vars

\* all handles are held by other callers and the extra call has failed
C2_Witness ==
    \E c \in Callers :
        /\ pc[c] = "idle"
        /\ result[c] = "pool_exhausted"
        /\ Cardinality(Held) = PoolSize

\* C3: the step in which a get_connection call times out changes neither
\* the free queue nor the set of closed handles, and the caller holds no
\* handle afterwards.
C3_TimeoutLeavesPool ==
    [][\A c \in Callers :
         (pc[c] = "waiting" /\ pc'[c] = "idle") =>
             /\ pool' = pool
             /\ closed' = closed
             /\ conn'[c] = None]_vars

\* a timed-out caller next to an empty free queue
C3_Witness ==
    \E c \in Callers :
        /\ result[c] = "pool_exhausted"
        /\ conn[c] = None
        /\ pool = <<>>
        /\ closePc = "idle"

\* C4: when no repository operation is in progress (and close_all has not
\* been called) all handles are back in the free queue, each once, and open.
C4_NoLeak ==
    (closePc = "idle" /\ \A c \in Callers : pc[c] = "idle") =>
        /\ Free = Handles
        /\ Len(pool) = PoolSize
        /\ closed = {}

\* operations have completed, one by raising inside the with block and one
\* by pool exhaustion
C4_Witness ==
    /\ closePc = "idle"
    /\ \A c \in Callers : pc[c] = "idle"
    /\ \E c \in Callers : result[c] = "sqlite_error"
    /\ \E c \in Callers : result[c] = "pool_exhausted"

\* C5: a get_connection call that begins after close_all has returned never
\* obtains a handle (whichever handles were held when close_all ran and
\* whenever they are put back afterwards).
C5_NoAcquireAfterCloseAll ==
    \A c \in Callers :
        []((closePc = "done" /\ pc[c] = "idle") => [](pc[c] # "holding"))

(***************************************************************************)
(* Claims about get_connection_pool                                        *)
(***************************************************************************)
PoolsCreated == {p \in PoolIds : \E t \in Threads : newPool[t] = p}

\* C6: at most one DatabaseConnectionPool is ever created, every V3Database
\* uses that one pool, and no pool beyond the first opens a handle.
C6_SinglePool ==
    /\ Cardinality(PoolsCreated) <= 1
    /\ \A t, u \in Threads :
         (self_pool[t] # None /\ self_pool[u] # None) => self_pool[t] = self_pool[u]
    /\ \A p \in PoolIds : p > 1 => poolConns[p] = 0

(***************************************************************************)
(* Claims about the ingestion                                              *)
(***************************************************************************)
SamePair(r1, r2) ==
    /\ r1.original_path = r2.original_path
    /\ r1.original_filename = r2.original_filename

\* the current item's (path, filename) is already in the table
ItemPresent ==
    \E r \in files : /\ r.original_path = DirPath(Item.dir)
                     /\ r.original_filename = Basename(DirPath(Item.dir))

\* C7: no two File rows, committed or not, have the same (source path,
\* filename) pair, and the insert of a pair that is already present adds no
\* row and fails (it is counted as an error).
C7_UniquePathName ==
    /\ [](\A r1, r2 \in files \cup files_committed :
            SamePair(r1, r2) => r1.file_id = r2.file_id)
    /\ [][(runPc = "insert" /\ ItemPresent /\ runPc' # "crashed") =>
            (files' = files /\ seq' = seq /\ error_count' = error_count + 1)]_vars

\* a second run over a tree the first run ingested completely: every insert
\* was refused
C7_Witness ==
    /\ runs = 2
    /\ runPc = "done"
    /\ tree = PlainTree
    /\ error_count = NumDirs
    /\ seq = NumDirs
    /\ Cardinality(files_committed) = NumDirs

\* the loop body is left before its commit check: the item has failed
ItemFails == Running /\ runPc # "commit_check" /\ runPc' \in {"load", "aborted"}

\* C8: an item that fails adds one to error_count and nothing to
\* processed_count and the loop goes on with the next directory; the run is
\* never stopped by an item, can always take its next step, and when it is
\* done every directory of the scan has been visited and everything is
\* committed.
C8_RunContinues ==
    /\ [][ItemFails =>
            /\ error_count' = error_count + 1
            /\ processed_count' = processed_count
            /\ idx' = idx + 1
            /\ runPc' = "load"]_vars
    /\ [](runPc \in {"idle", "done", "crashed"} \/ Running)
    /\ [](Running => ENABLED (LoadItem \/ InsertRow \/ SaveOpen \/ SaveWrite
                               \/ UpdateRow \/ CommitCheck \/ FinishRun))
    /\ [](runPc = "done" =>
            /\ idx = Len(experiment_dirs) + 1
            /\ experiment_dirs = Scan(tree)
            /\ files_committed = files
            /\ seq_committed = seq)

\* a finished first run in which an item whose blob write failed was
\* followed by an item that was processed
C8_Witness ==
    /\ runPc = "done"
    /\ runs = 1
    /\ error_count >= 1
    /\ processed_count >= 1
    /\ \E r1, r2 \in files_committed :
         /\ r1.binary_data_path = Pending
         /\ r2.binary_data_path # Pending
         /\ r1.file_id < r2.file_id

\* the row references a blob that loads and whose recomputed checksum is
\* the stored one
BlobVerifies(r) ==
    /\ r.binary_data_path # Pending
    /\ BlobLoads(r.binary_data_path)
    /\ Md5(ToBytes(disk[r.binary_data_path].data)) = r.data_checksum

ValidDir(k) == k.n1 = 1 /\ k.n4 = 1 /\ k.len1 >= 0 /\ k.len4 >= 0
LacksCh4(k) == k.n1 = 1 /\ k.n4 = 0
\* the tree holds NumDirs - 1 valid experiment directories and one directory
\* without a channel-4 file
OneLacksCh4 ==
    \E d \in Dirs : /\ LacksCh4(tree[d])
                    /\ \A e \in Dirs \ {d} : ValidDir(tree[e])
\* the first run, on the empty catalog, is done and no blob write failed
FirstRunDoneNoWriteFailure ==
    /\ runs = 1
    /\ runPc = "done"
    /\ \A r \in files_committed : r.binary_data_path # Pending

\* C9 as claimed: the run over such a tree reports NumDirs - 1 processed and
\* 1 error, and leaves NumDirs - 1 rows with verifiable blobs.
C9_AsClaimed ==
    (OneLacksCh4 /\ FirstRunDoneNoWriteFailure) =>
        /\ processed_count = NumDirs - 1
        /\ error_count = 1
        /\ Cardinality(files_committed) = NumDirs - 1
        /\ \A r \in files_committed : BlobVerifies(r)

\* C9 amended: the run over such a tree reports NumDirs - 1 processed and
\* leaves NumDirs - 1 rows with verifiable blobs; it counts an error only
\* in a step in which a blob write or a periodic commit fails, so it
\* reports no error when none does: the directory without a channel-4 file
\* is skipped by the scan and never counted.
C9_SkipsSilently ==
    /\ []((OneLacksCh4 /\ FirstRunDoneNoWriteFailure) =>
            /\ processed_count = NumDirs - 1
            /\ Cardinality(files_committed) = NumDirs - 1
            /\ \A r \in files_committed : BlobVerifies(r))
    /\ [][(OneLacksCh4 /\ runs = 1 /\ Running /\ error_count' # error_count) =>
            runPc \in {"save", "write", "commit_check"}]_vars

C9_Witness ==
    /\ OneLacksCh4
    /\ FirstRunDoneNoWriteFailure
    /\ processed_count = NumDirs - 1
    /\ error_count = 0

\* the channel pair the ingestion writes for the directory of row r
WrittenFor(r) ==
    LET items == {i \in 1..Len(Scan(tree)) :
                     DirPath(Scan(tree)[i].dir) = r.original_path}
    IN CombinedDataOf(Scan(tree)[CHOOSE i \in items : TRUE])

\* C10: in every state, the state left by a crash included, every committed
\* File row carries the placeholder or references the blob named after its
\* identifier, which exists, is complete and holds the channel pair written
\* for that row.
C10_CommittedRowsHaveBlob ==
    \A r \in files_committed :
        \/ r.binary_data_path = Pending
        \/ /\ r.binary_data_path = BinaryFilename(r.file_id)
           /\ BlobLoads(r.binary_data_path)
           /\ disk[r.binary_data_path].data = WrittenFor(r)
           /\ Len(WrittenFor(r)) = r.total_samples

\* after a crash in the middle of a blob write: a truncated blob is on disk
\* next to committed rows that reference complete blobs
C10_Witness ==
    /\ runPc = "crashed"
    /\ \E n \in DOMAIN disk : ~disk[n].complete
    /\ \E r \in files_committed : r.binary_data_path # Pending

\* C11: in every committed state of the catalog, the state after a run in
\* which the blob write of some item failed included, every File row has a
\* blob reference that is neither the placeholder nor empty.
C11_NoPlaceholderCommitted ==
    \A r \in files_committed :
        r.binary_data_path # Pending /\ r.binary_data_path # <<>>

\* C12: whatever happens to a blob write (a crash or a failure part-way
\* included), a file that exists under a blob's final name holds a complete
\* payload.
C12_AllOrNothing ==
    \A id \in 1..(NumDirs * MaxRuns) :
        SaveName(id) \in DOMAIN disk => disk[SaveName(id)].complete

(***************************************************************************)
(* Claims about saving and loading blobs                                   *)
(***************************************************************************)
\* the identifiers of the rows of the catalog
CatalogIds == {r.file_id : r \in files_committed}

\* the pair handed to save_binary_data for item i of the scan: both channels
\* cut to min_len
SavedLoadVoltage(i) ==
    SubSeq(LoadVoltageOf(Scan(tree)[i]).data, 1, MinLenOf(Scan(tree)[i]))
SavedSourceCurrent(i) ==
    SubSeq(SourceCurrentOf(Scan(tree)[i]).data, 1, MinLenOf(Scan(tree)[i]))

\* caller c has called load_file_data for a file of the catalog whose blob
\* is as the ingestion saved it, and the call has returned
LoadedSavedBlob(c) ==
    /\ Answered(c)
    /\ req[c].op = "load_file_data"
    /\ result[c] = "ok"
    /\ req[c].id \in CatalogIds
    /\ BlobLoads(BinaryFilename(req[c].id))

\* C13: load_file_data of a file whose channel pair (A, B) the ingestion
\* saved returns A as its first sequence and B as its second.
C13_RoundTrip ==
    \A c \in Callers :
        LoadedSavedBlob(c) =>
            value[c] = << <<SavedLoadVoltage(req[c].id)>>,
                          <<SavedSourceCurrent(req[c].id)>> >>

\* a saved pair of different, non-empty columns, cut to max_samples by the
\* ingestion, has been loaded
C13_Witness ==
    \E c \in Callers :
        /\ LoadedSavedBlob(c)
        /\ tree[req[c].id].len1 > MaxSamples
        /\ Len(value[c][1][1]) = MaxSamples
        /\ value[c][1] # value[c][2]

(***************************************************************************)
(* Claims about the repository operations and their endpoints              *)
(***************************************************************************)
\* C14: after update_transient_indices(id, t1, t2, t3) on an existing file
\* the call has completed without error and the row holds exactly the three
\* passed markers.
C14_TransientsWritten ==
    \A c \in Callers :
        (Answered(c) /\ req[c].op = "update_transient_indices"
                     /\ req[c].id \in CatalogIds) =>
            /\ result[c] = "ok"
            /\ \E r \in files_committed :
                 /\ r.file_id = req[c].id
                 /\ <<r.transient1_index, r.transient2_index, r.transient3_index>>
                        = req[c].arg

\* the status rows of file i
StatusRowsOf(i) == {st \in experiment_status : st.file_id = i}

\* C15: after a call of update_experiment_status for a file identifier
\* exactly one status row exists for it and it holds the status of the call.
C15_OneStatusRow ==
    \A c \in Callers :
        (Answered(c) /\ req[c].op = "update_experiment_status") =>
            /\ Cardinality(StatusRowsOf(req[c].id)) = 1
            /\ \A st \in StatusRowsOf(req[c].id) : st.status = req[c].arg[1]

\* C16: after add_rejection(id) on an existing file, a Rejection row that
\* references the file exists and the status of the file is rejected.
C16_RejectionAndStatus ==
    \A c \in Callers :
        (Answered(c) /\ req[c].op = "add_rejection" /\ req[c].id \in CatalogIds) =>
            /\ \E rj \in rejections : rj.file_id = req[c].id
            /\ \E st \in StatusRowsOf(req[c].id) : st.status = "reject"

\* the selected_label of a row as get_file_by_id returns it
LabelOf(file_info) == file_info[1][3 + 1]

AskedAbsent(c) ==
    Answered(c) /\ req[c].op = "get_file_by_id" /\ req[c].id \notin CatalogIds

\* C18: get_file_by_id for a well-formed identifier that is not in the
\* catalog returns None when the storage works, and the response then
\* (404 file_not_found) differs from the response to a storage failure
\* (500 database_error) and to pool exhaustion (500 internal_error).
C18_NotFoundDistinct ==
    \A c \in Callers :
        AskedAbsent(c) =>
            /\ result[c] \in {"ok", "sqlite_error", "pool_exhausted"}
            /\ result[c] = "ok" =>
                 /\ value[c] = <<>>
                 /\ Response(c).code = 404
                 /\ Response(c).error_type = "file_not_found"
            /\ result[c] = "sqlite_error" =>
                 /\ Response(c).code = 500
                 /\ Response(c).error_type = "database_error"
            /\ result[c] = "pool_exhausted" =>
                 /\ Response(c).code = 500
                 /\ Response(c).error_type = "internal_error"

\* one caller was told the identifier does not exist while another one,
\* who found the pool empty, was told the service could not check
C18_Witness ==
    \E c, d \in Callers :
        /\ AskedAbsent(c) /\ result[c] = "ok"
        /\ Response(c).error_type = "file_not_found"
        /\ AskedAbsent(d) /\ result[d] = "pool_exhausted"
        /\ Response(d).error_type = "internal_error"

\* C19: a write operation applied to a file identifier that is not in the
\* catalog does not report success, and what it reports differs from the
\* validation response and from the storage-failure response.
C19_WriteReportsNotFound ==
    \A c \in Callers :
        (/\ Answered(c)
         /\ req[c].op \in {"update_file_label", "update_transient_indices"}
         /\ req[c].id \notin CatalogIds
         /\ req[c].arg # <<>>) =>
            /\ Response(c).status # "success"
            /\ Response(c) # UpdateResponse(req[c], "missing_label", <<>>)
            /\ Response(c).code # UpdateResponse(req[c], "sqlite_error", <<>>).code

\* C20: load_file_data of a file whose blob exists but cannot be parsed
\* gives a result, and its endpoint a response, that differ from those for
\* a blob path that does not exist ((None, None) and 404 File data not
\* found).
C20_CorruptDistinct ==
    \A c \in Callers :
        (/\ Answered(c)
         /\ req[c].op = "load_file_data"
         /\ result[c] = "ok"
         /\ req[c].id \in CatalogIds
         /\ BinaryFilename(req[c].id) \in DOMAIN disk
         /\ ~BlobLoads(BinaryFilename(req[c].id))) =>
            /\ value[c] # NoData
            /\ Response(c) # GetFileDataResponse(req[c], "ok", NoData)

\* the result lists the rows of table files, one per row, in the order of
\* their identifiers (the identifier is the first column)
ListsAllFiles(val) ==
    /\ Len(val) = Cardinality(files_committed)
    /\ {val[j][1] : j \in 1..Len(val)} = CatalogIds
    /\ \A j, k \in 1..Len(val) : j < k => val[j][1] < val[k][1]

\* C21: search_files returns, ordered by identifier, the rows that satisfy
\* all supplied predicates; with every predicate omitted, all rows.
C21_SearchReturnsRows ==
    \A c \in Callers :
        (Answered(c) /\ req[c].op = "search_files" /\ req[c].arg = <<>>) =>
            /\ result[c] = "ok"
            /\ ListsAllFiles(value[c])
            /\ Response(c).status = "success"

\* C22: get_files_by_status returns the rows of files joined with their
\* status, ordered by identifier; with no filter supplied, the files
\* without a status row are part of the result.
C22_ListIncludesUnreviewed ==
    \A c \in Callers :
        (Answered(c) /\ req[c].op = "get_files_by_status" /\ req[c].arg = <<>>) =>
            /\ result[c] = "ok"
            /\ ListsAllFiles(value[c])

(***************************************************************************)
(* Further claims about the ingestion                                      *)
(***************************************************************************)
\* the blob names whose file is created or changed by a step
ChangedBlobs == {n \in DOMAIN disk' : n \notin DOMAIN disk \/ disk'[n] # disk[n]}

\* the rows of the connection of the run that carry a blob name after a
\* step and did not before it
NewlyReferenced == {r \in files' : r.binary_data_path # Pending /\ r \notin files}

\* C23: a step that writes to the blob directory writes only the blob named
\* after the identifier of the row the current item inserted, which still
\* carries the placeholder; a step that sets a row's blob reference sets it
\* for that row, from the placeholder to the name derived from its
\* identifier, after the blob has been written completely.
C23_InsertSaveUpdate ==
    /\ [][ChangedBlobs # {} =>
            /\ runPc \in {"save", "write"}
            /\ ChangedBlobs = {BinaryFilename(file_id)}
            /\ \E r \in files : /\ r.file_id = file_id
                                /\ r.binary_data_path = Pending]_vars
    /\ [][\A r \in NewlyReferenced :
            /\ runPc = "update"
            /\ r.file_id = file_id
            /\ \E q \in files : /\ q.file_id = r.file_id
                                /\ q.binary_data_path = Pending
            /\ r.binary_data_path = BinaryFilename(r.file_id)
            /\ BlobLoads(r.binary_data_path)
            /\ disk[r.binary_data_path].data = CombinedData
            /\ r.data_checksum = Md5(ToBytes(disk[r.binary_data_path].data))]_vars

\* the last item of a first run has gone through insert, save and update
C23_Witness ==
    /\ runs = 1
    /\ runPc = "commit_check"
    /\ idx = NumDirs
    /\ \E r \in files : /\ r.file_id = file_id
                        /\ r.binary_data_path = BinaryFilename(file_id)
                        /\ r \notin files_committed
    /\ BlobLoads(BinaryFilename(file_id))

\* the directories the scan selected
SelectedDirs == {experiment_dirs[i].dir : i \in 1..Len(experiment_dirs)}

\* C24: the scan selects a directory if and only if it holds exactly one
\* channel-1 file and exactly one channel-4 file.
C24_ExactlyOneOfEach ==
    runs >= 1 =>
        \A d \in Dirs : d \in SelectedDirs <=> (tree[d].n1 = 1 /\ tree[d].n4 = 1)

Min(a, b) == IF a <= b THEN a ELSE b

\* the directory a File row was made from
DirOf(r) == CHOOSE d \in Dirs : DirPath(d) = r.original_path

\* C25: every File row that references a blob references a complete blob of
\* total_samples rows of two values each, and total_samples is the smaller
\* of the two channel lengths after each was cut to max_samples.
C25_BlobShape ==
    \A r \in files \cup files_committed :
        r.binary_data_path # Pending =>
            /\ BlobLoads(r.binary_data_path)
            /\ Len(disk[r.binary_data_path].data) = r.total_samples
            /\ \A j \in 1..r.total_samples : Len(disk[r.binary_data_path].data[j]) = 2
            /\ r.total_samples = Min(Min(tree[DirOf(r)].len1, MaxSamples),
                                     Min(tree[DirOf(r)].len4, MaxSamples))
            /\ r.total_samples <= MaxSamples

\* committed rows of a directory whose channels are both longer than
\* max_samples and of a directory whose channels differ in length
C25_Witness ==
    \E r1, r2 \in files_committed :
        /\ r1.binary_data_path # Pending
        /\ tree[DirOf(r1)].len1 > MaxSamples /\ tree[DirOf(r1)].len4 > MaxSamples
        /\ r1.total_samples = MaxSamples
        /\ r2.binary_data_path # Pending
        /\ tree[DirOf(r2)].len1 < tree[DirOf(r2)].len4
        /\ r2.total_samples = tree[DirOf(r2)].len1

\* the channels of item i of the scan of the tree both load
Loadable(i) ==
    ~LoadVoltageOf(Scan(tree)[i]).none /\ ~SourceCurrentOf(Scan(tree)[i]).none

\* a row is committed for every directory of the tree that can be ingested
AllIngested ==
    \A i \in 1..Len(Scan(tree)) :
        Loadable(i) =>
            \E r \in files_committed : r.original_path = DirPath(Scan(tree)[i].dir)

\* C27: once every directory of the tree is ingested, a run changes neither
\* the committed File rows nor the blob directory and processes nothing:
\* each item that reaches the insert is refused by the uniqueness constraint
\* and counted as an error, and no item reaches the blob write.
C27_RerunChangesNothing ==
    /\ [][AllIngested =>
            /\ files_committed' = files_committed
            /\ seq_committed' = seq_committed
            /\ disk' = disk]_vars
    /\ [][(AllIngested /\ Running) => processed_count' = processed_count]_vars
    /\ [][(AllIngested /\ runPc = "insert" /\ runPc' # "crashed") =>
            /\ files' = files
            /\ error_count' = error_count + 1
            /\ runPc' = "load"]_vars
    /\ [](AllIngested => runPc \notin {"save", "write", "update", "commit_check"})

\* a second run over a tree whose first run left a complete row and a row
\* whose blob write had failed: every item was refused
C27_Witness ==
    /\ runs = 2
    /\ runPc = "done"
    /\ AllIngested
    /\ processed_count = 0
    /\ error_count = Len(experiment_dirs)
    /\ Len(experiment_dirs) = NumDirs
    /\ \E r \in files_committed : r.binary_data_path = Pending
    /\ \E r \in files_committed : r.binary_data_path # Pending

\* the rows that carry a blob name
Complete(rows) == {r \in rows : r.binary_data_path # Pending}

\* C30: every iteration of the loop adds one to exactly one of
\* processed_count and error_count; processed_count grows exactly in the
\* step that gives a row its blob name; at the end of a run the two counts
\* add up to the number of directories the scan selected.
C30_CountsPartition ==
    /\ []((Running \/ runPc = "done") =>
            processed_count + error_count =
                (idx - 1) + (IF runPc = "commit_check" THEN 1 ELSE 0))
    /\ [](runPc = "done" => processed_count + error_count = Len(Scan(tree)))
    /\ [][(Running /\ runPc' # "crashed") =>
            /\ processed_count' - processed_count =
                   Cardinality(Complete(files')) - Cardinality(Complete(files))
            /\ (processed_count' - processed_count)
                   + (error_count' - error_count) \in {0, 1}]_vars
    /\ []((runs = 1 /\ runPc = "done") =>
            processed_count = Cardinality(Complete(files_committed)))

(***************************************************************************)
(* Further claims about the catalog                                        *)
(***************************************************************************)
\* the fixed label set: the labels of LABEL_TYPES and the default
LabelSet == {LABEL_TYPES[k] : k \in DOMAIN LABEL_TYPES} \cup {"unknown"}

\* C26: the selected label of every committed File row is a member of the
\* fixed label set.
C26_LabelInSet ==
    \A r \in files_committed : r.selected_label \in LabelSet

\* C28: no step deletes a committed File row or changes its identifier: a
\* row committed before a step is committed after it with the same
\* identifier, path and name.
C28_RowsStay ==
    [][\A r \in files_committed :
         \E q \in files_committed' : /\ q.file_id = r.file_id
                                     /\ q.original_path = r.original_path
                                     /\ q.original_filename = r.original_filename]_vars

\* file 1 is committed, its label was changed by the service, a rejection
\* was asked for, and a second run of the ingestion has ended
C28_Witness ==
    /\ runs = 2
    /\ runPc = "done"
    /\ Answered(1)
    /\ req[1].op = "add_rejection"
    /\ \E r \in files_committed : /\ r.file_id = 1
                                  /\ r.selected_label = "weak_arc"
                                  /\ r.selected_label # SelectedLabel(LabelDir(r.original_path))

\* the blob names the committed rows reference
CommittedBlobs == {r.binary_data_path : r \in Complete(files_committed)}

\* C29: while the ingestion runs next to a reader, crashes and re-runs
\* included, no step writes to a blob a committed File row references, no
\* two rows with different identifiers reference the same blob, and a
\* load_file_data call that returns data returns the channel pair of the
\* directory its row was made from.
C29_BlobsAppendOnce ==
    /\ [][ChangedBlobs \cap CommittedBlobs = {}]_vars
    /\ [](\A r, q \in Complete(files \cup files_committed) :
            r.binary_data_path = q.binary_data_path => r.file_id = q.file_id)
    /\ [](\A r \in Complete(files_committed) : BlobLoads(r.binary_data_path))
    /\ [](\A c \in Callers :
            (Answered(c) /\ req[c].op = "load_file_data" /\ result[c] = "ok"
                /\ value[c] # NoData) =>
                \E r \in files_committed :
                    /\ r.file_id = req[c].id
                    /\ value[c] = LoadColumns(
                           CombinedDataOf([dir |-> DirOf(r), ch1_file |-> tree[DirOf(r)].n1,
                                           ch4_file |-> tree[DirOf(r)].n4])))

\* a reader got the data of file 1 during a second run of the ingestion,
\* which is writing the blob of another file
C29_Witness ==
    /\ runs = 2
    /\ runPc = "write"
    /\ file_id > 1
    /\ Answered(1)
    /\ req[1].op = "load_file_data"
    /\ result[1] = "ok"
    /\ value[1] # NoData
    /\ \E n \in DOMAIN disk : ~disk[n].complete

\* the rows of processed items that the connection of the run has not
\* committed
UncommittedProcessed == {r \in Complete(files) : r \notin files_committed}

\* C31: at every point of a run at most CommitEvery processed items have
\* rows that are not yet committed, and when the run has completed the row
\* of every processed item is committed.
C31_BatchBound ==
    /\ [](Running => Cardinality(UncommittedProcessed) <= CommitEvery)
    /\ [](runPc = "done" => UncommittedProcessed = {})

====
